---- MODULE Spec2Model ----
(***************************************************************************)
(* State-machine model of the TBC rate cache of tgexchangebot              *)
(* (src/currency.go) and of the bot entry points that use it               *)
(* (src/exchangebot.go).                                                   *)
(*                                                                         *)
(* Conventions.                                                            *)
(*  - Time is counted in whole hours; 0 is Go's zero time.Time.            *)
(*  - Rates are fixed-point numbers with three decimals (2.70 is 2700).    *)
(*  - Amounts returned by a conversion are exact fractions [num, den].     *)
(*  - A Go map is a function whose DOMAIN is the key set.                  *)
(***************************************************************************)
EXTENDS Integers, Sequences, FiniteSets, TLC

VARIABLES
    cache,        \* "nil" | "live": what initCurrencyRates returned
    now,          \* wall clock, hours
    base,         \* c.base
    rates,        \* c.rates
    lastUpdated,  \* c.lastUpdated
    reqCh,        \* c.reqCh, the buffered mailbox
    actorPc,      \* position of the manager goroutine (run)
    cur,          \* message the manager goroutine is handling
    lastTick,     \* time of the last ticker delivery
    async,        \* goroutine started by refreshIfStaleAsync
    fetching,     \* goroutines started by _startSingleRateUpdate, per code
    callers,      \* goroutines of the bot layer calling into the cache
    sent,         \* history: number of messages put on reqCh so far
    lastSeq,      \* history: arrival number of the message dequeued last
    handling,     \* history: handlers entered and not yet left
    applied,      \* history: codes merged by applySingle since the last wholesale replacement
    replaced,     \* history: key set installed by the last wholesale replacement
    replacedAt,   \* history: time of the last wholesale replacement, 0 before the first
    token,        \* the token handed to normalizeCurrency last
    normalized,   \* what normalizeCurrency returned for it
    trip,         \* the conversion there and back computed last on the cached quotes
    parsed,       \* the command handed to parseOfferCommand last and what it returned
    bot           \* the update loop (handleUpdates) and the bot_settings row

vars == <<cache, now, base, rates, lastUpdated, reqCh, actorPc, cur, lastTick,
          async, fetching, callers, sent, lastSeq, handling, applied, replaced, replacedAt,
          token, normalized, trip, parsed, bot>>

storeVars == <<base, rates, lastUpdated>>

----------------------------------------------------------------------------
(* Bounds of the model *)

MaxTime == 5
MaxReqs == 3
\* make(chan interface{}, 32) in the source; the model runs a smaller mailbox
MailboxCap == 2

(* Program constants *)

CurRUR == "RUR"
CurUSD == "USD"
CurGEL == "GEL"
\* tbcRate{Buy: 1.0, Sell: 1.0} in fixed point
One == 1000
\* time.Hour freshness threshold of _computeCounterAmountInternal
FreshThreshold == 1
\* updateThreshold := 2 * time.Hour
UpdateThreshold == 2
\* time.NewTicker(4 * time.Hour)
TickerPeriod == 4

\* the goroutines that call into the cache: main runs one update loop
Callers == {"handleUpdates"}

----------------------------------------------------------------------------
(* Strings *)

ToUpper(s) ==
    CASE s = "usd" -> "USD"
      [] s = "rur" -> "RUR"
      [] s = "gel" -> "GEL"
      [] OTHER -> s

TrimSpace(s) ==
    CASE s = " USD" -> "USD"
      [] s = " " -> ""
      [] OTHER -> s

EqualFold(a, b) == ToUpper(a) = ToUpper(b)

currencyCodes == <<CurRUR, CurUSD, CurGEL>>

currencyIndexByCode == {currencyCodes[i] : i \in 1..Len(currencyCodes)}

----------------------------------------------------------------------------
(* Numbers *)

RECURSIVE GCD(_, _)
GCD(a, b) == IF b = 0 THEN a ELSE GCD(b, a % b)

\* the quotient n/d of two float64 values, kept exact
Quot(n, d) ==
    IF n = 0 THEN [num |-> 0, den |-> 1]
    ELSE LET g == GCD(n, d) IN [num |-> n \div g, den |-> d \div g]

Whole(n) == [num |-> n, den |-> 1]

----------------------------------------------------------------------------
(* The rate provider: what the three endpoints may answer *)

Entry(c, b, s) == [Currency |-> c, Buy |-> b, Sell |-> s]

\* answers of the full-list endpoint (getTBCCurrencyRatesCtx)
FullResponses ==
    { [Base |-> "GEL", List |-> <<Entry("USD", 2700, 2750), Entry("RUR", 28, 30)>>],
      [Base |-> "GEL", List |-> <<Entry("USD", 2700, 2750)>>],
      [Base |-> "GEL", List |-> <<Entry("USD", 0, 2750), Entry("RUR", 28, 0)>>] }

\* further answers of the full-list endpoint: a list with a currency the
\* registry does not know, a list with an entry for the base itself, and an
\* answer announcing another base
OtherResponses ==
    { [Base |-> "GEL", List |-> <<Entry("USD", 2700, 2750), Entry("EUR", 3000, 3100)>>],
      [Base |-> "GEL", List |-> <<Entry("USD", 2700, 2750), Entry("GEL", 1000, 1000)>>],
      [Base |-> "USD", List |-> <<Entry("GEL", 360, 370)>>] }

\* answers of the single-currency endpoint, as the list it carries
SingleResponses(code) ==
    { <<Entry(code, 28, 30)>>, <<>> }

\* answers of the convert endpoint: a failure (transport, status, decoding),
\* a 2xx body with a value, a 2xx body whose "value" is 0 or missing
ConvertOutcomes ==
    { [ok |-> FALSE, value |-> 0], [ok |-> TRUE, value |-> 9100],
      [ok |-> TRUE, value |-> 0] }

NoResponse == [Base |-> "", List |-> <<>>]

\* currencies and amounts the bot layer asks to convert
KnownCurrencies == {"USD", "GEL"}
KnownAmounts == {100}
\* the want currency of the command, "" when it names none
WantCurrencies == {"", "GEL"}
\* the commands given to the bot: USD offered for GEL, GEL offered with no
\* want currency named
Offers == {<<"USD", "GEL">>, <<"GEL", "">>}
\* currencies a single fetch may be started for
FetchCodes == {"USD", "RUR", "GEL"}

----------------------------------------------------------------------------
(* The store and the conversion engine *)

tbcRate(b, s, t) == [Buy |-> b, Sell |-> s, LastUpdated |-> t]

\* tbcRate{}: Go's zero value
ZeroRate == tbcRate(0, 0, 0)

\* c.rates[code] = r
MapPut(m, code, r) ==
    [k \in DOMAIN m \cup {code} |-> IF k = code THEN r ELSE m[k]]

EmptyMap == [k \in {} |-> ZeroRate]

Last(S) == CHOOSE i \in S : \A j \in S : j <= i
Min(S) == CHOOSE i \in S : \A j \in S : i <= j

\* variant: the quotes are stored without a timestamp
SyncMapUnstamped(out, t) ==
    LET code(i) == ToUpper(TrimSpace(out.List[i].Currency))
        idx == {i \in 1..Len(out.List) : code(i) # ""}
    IN  [k \in {code(i) : i \in idx} |->
            LET i == Last({j \in idx : code(j) = k})
            IN  tbcRate(out.List[i].Buy, out.List[i].Sell, 0)]

\* the map _refresh builds from a response, stamped with time t
SyncMap(out, t) ==
    LET code(i) == ToUpper(TrimSpace(out.List[i].Currency))
        idx == {i \in 1..Len(out.List) : code(i) # ""}
    IN  [k \in {code(i) : i \in idx} |->
            LET i == Last({j \in idx : code(j) = k})
            IN  tbcRate(out.List[i].Buy, out.List[i].Sell, t)]

\* variant: the goroutine stores the quotes without a timestamp
AsyncMapUnstamped(out, t) ==
    LET code(i) == ToUpper(out.List[i].Currency)
        idx == {i \in 1..Len(out.List) : code(i) \in currencyIndexByCode}
    IN  [k \in {code(i) : i \in idx} |->
            LET i == Last({j \in idx : code(j) = k})
            IN  tbcRate(out.List[i].Buy, out.List[i].Sell, 0)]

\* the map the goroutine of refreshIfStaleAsync builds from a response
AsyncMap(out, t) ==
    LET code(i) == ToUpper(out.List[i].Currency)
        idx == {i \in 1..Len(out.List) : code(i) \in currencyIndexByCode}
    IN  [k \in {code(i) : i \in idx} |->
            LET i == Last({j \in idx : code(j) = k})
            IN  tbcRate(out.List[i].Buy, out.List[i].Sell, t)]

\* variant: a quote older than the freshness threshold counts as missing
cachedRateFreshOnly(from) ==
    IF from = base THEN tbcRate(One, One, 0)
    ELSE IF from \notin DOMAIN rates THEN ZeroRate
    ELSE IF now - rates[from].LastUpdated > FreshThreshold THEN ZeroRate
    ELSE rates[from]

cachedRate(from) ==
    IF from = base THEN tbcRate(One, One, 0)
    ELSE IF from \notin DOMAIN rates THEN ZeroRate
    ELSE rates[from]

\* variant: the bank's sides taken the wrong way round
getPairRateSidesSwapped(from, to, amount) ==
    IF from = to THEN [v |-> Whole(amount), ok |-> TRUE]
    ELSE LET rateFrom == cachedRate(from)
             rateTo == cachedRate(to)
         IN  IF rateFrom.Sell = 0 \/ rateTo.Buy = 0
             THEN [v |-> Whole(0), ok |-> FALSE]
             ELSE [v |-> Quot(amount * rateFrom.Sell, rateTo.Buy), ok |-> TRUE]

\* variant: only the from side is tested for a zero rate
getPairRateNoSellTest(from, to, amount) ==
    IF from = to THEN [v |-> Whole(amount), ok |-> TRUE]
    ELSE LET rateFrom == cachedRate(from)
             rateTo == cachedRate(to)
         IN  IF rateFrom.Buy = 0
             THEN [v |-> Whole(0), ok |-> FALSE]
             ELSE [v |-> Quot(amount * rateFrom.Buy, rateTo.Sell), ok |-> TRUE]

\* variant without the from == to shortcut
getPairRateNoShortcut(from, to, amount) ==
    LET rateFrom == cachedRate(from)
        rateTo == cachedRate(to)
    IN  IF rateFrom.Buy = 0 \/ rateTo.Sell = 0
        THEN [v |-> Whole(0), ok |-> FALSE]
        ELSE [v |-> Quot(amount * rateFrom.Buy, rateTo.Sell), ok |-> TRUE]

\* variant dividing by the target's bid
getPairRateBuyBothSides(from, to, amount) ==
    IF from = to THEN [v |-> Whole(amount), ok |-> TRUE]
    ELSE LET rateFrom == cachedRate(from)
             rateTo == cachedRate(to)
         IN  IF rateFrom.Buy = 0 \/ rateTo.Buy = 0
             THEN [v |-> Whole(0), ok |-> FALSE]
             ELSE [v |-> Quot(amount * rateFrom.Buy, rateTo.Buy), ok |-> TRUE]

getPairRateFromList(from, to, amount) ==
    IF from = to THEN [v |-> Whole(amount), ok |-> TRUE]
    ELSE LET rateFrom == cachedRate(from)
             rateTo == cachedRate(to)
         IN  IF rateFrom.Buy = 0 \/ rateTo.Sell = 0
             THEN [v |-> Whole(0), ok |-> FALSE]
             ELSE [v |-> Quot(amount * rateFrom.Buy, rateTo.Sell), ok |-> TRUE]

\* getPairRateFromList on an amount that is itself a converted amount
getPairRateOfFraction(from, to, amount) ==
    IF from = to THEN [v |-> amount, ok |-> TRUE]
    ELSE LET rateFrom == cachedRate(from)
             rateTo == cachedRate(to)
         IN  IF rateFrom.Buy = 0 \/ rateTo.Sell = 0
             THEN [v |-> Whole(0), ok |-> FALSE]
             ELSE [v |-> Quot(amount.num * rateFrom.Buy, amount.den * rateTo.Sell),
                   ok |-> TRUE]

defaultCounterCurrency(code) ==
    LET up == ToUpper(code)
    IN  CASE up = CurUSD -> CurRUR
          [] up = CurGEL -> CurRUR
          [] OTHER -> CurUSD

\* the test of the loop over {from, to} in _computeCounterAmountInternal
NeedsUpdate(c) ==
    \/ c \notin DOMAIN rates
    \/ rates[c].LastUpdated = 0
    \/ now - rates[c].LastUpdated > FreshThreshold

Updates(from, to) == SelectSeq(<<from, to>>, NeedsUpdate)

----------------------------------------------------------------------------
(* The currency registry. A token is a sequence of characters, a character *)
(* a one-letter string or, outside ASCII, a name: "cy_" Cyrillic, "ka_l"   *)
(* the Georgian letter las, "rouble" and "lari" the currency signs; an     *)
(* upper-case name is the upper-case letter.                               *)

\* unicode.ToUpper on the letters in use; signs and the space have no case
upperOf ==
    [r |-> "R", u |-> "U", b |-> "B", s |-> "S", d |-> "D", g |-> "G", e |-> "E",
     l |-> "L", x |-> "X",
     cy_r |-> "CY_R", cy_l |-> "CY_L", cy_d |-> "CY_D", cy_o |-> "CY_O",
     cy_a |-> "CY_A", cy_i |-> "CY_I", cy_u |-> "CY_U", ka_l |-> "KA_L"]

ToUpperRune(c) == IF c \in DOMAIN upperOf THEN upperOf[c] ELSE c
ToLowerRune(c) ==
    IF \E l \in DOMAIN upperOf : upperOf[l] = c
    THEN CHOOSE l \in DOMAIN upperOf : upperOf[l] = c
    ELSE c

\* strings.ToLower, strings.ToUpper
ToLowerToken(t) == [i \in 1..Len(t) |-> ToLowerRune(t[i])]
ToUpperToken(t) == [i \in 1..Len(t) |-> ToUpperRune(t[i])]

IsSpace(c) == c \in {" ", "\t"}

\* strings.TrimSpace
RECURSIVE TrimLeft(_)
TrimLeft(t) == IF t # <<>> /\ IsSpace(Head(t)) THEN TrimLeft(Tail(t)) ELSE t
RECURSIVE TrimRight(_)
TrimRight(t) ==
    IF t # <<>> /\ IsSpace(t[Len(t)]) THEN TrimRight(SubSeq(t, 1, Len(t) - 1)) ELSE t
TrimSpaceToken(t) == TrimRight(TrimLeft(t))

\* the Go string of a token
RECURSIVE Text(_)
Text(t) == IF t = <<>> THEN "" ELSE Head(t) \o Text(Tail(t))

currencySpecs ==
    << [Code |-> CurRUR,
        Aliases |-> << <<"cy_r">>, <<"rouble">>, <<"r">>, <<"r", "u", "b">>,
                       <<"r", "u", "r">> >>],
       [Code |-> CurUSD,
        Aliases |-> << <<"$">>, <<"u", "s", "d">>, <<"cy_d", "cy_o", "cy_l", "cy_l">> >>],
       [Code |-> CurGEL,
        Aliases |-> << <<"cy_l">>, <<"lari">>, <<"ka_l">>, <<"cy_l", "cy_a", "cy_r">>,
                       <<"cy_l", "cy_a", "cy_r", "cy_i">>, <<"g", "e", "l">> >>] >>

\* `^X.*` : the token starts with First
rawRegexSpecs ==
    << [First |-> "cy_r", Code |-> CurRUR],
       [First |-> "cy_l", Code |-> CurGEL],
       [First |-> "cy_d", Code |-> CurUSD] >>

\* currencyIndexByCode[code]
IndexOfCode(code) == CHOOSE i \in 1..Len(currencyCodes) : currencyCodes[i] = code

\* currencyAliasToIndex as initCurrencyMappings fills it: the keys are the
\* lower-cased aliases, a later spec overwrites an earlier one
AliasSpecs(t) ==
    {i \in 1..Len(currencySpecs) :
        \E j \in 1..Len(currencySpecs[i].Aliases) :
            ToLowerToken(currencySpecs[i].Aliases[j]) = t}
currencyAliasToIndex(t) == Last(AliasSpecs(t))

\* currencyRegexpRules: the rules of rawRegexSpecs with a known code
currencyRegexpRules ==
    SelectSeq(rawRegexSpecs, LAMBDA rr : ToUpper(rr.Code) \in currencyIndexByCode)

MatchString(rule, t) == t # <<>> /\ Head(t) = rule.First

Matching(t) == {k \in 1..Len(currencyRegexpRules) : MatchString(currencyRegexpRules[k], t)}

\* currencyCodes[rule.index] of the first matching rule
FirstMatch(t) ==
    currencyCodes[IndexOfCode(ToUpper(currencyRegexpRules[Min(Matching(t))].Code))]

\* variant: the token is not lower-cased before the lookups
normalizeCurrencyCaseSensitive(tok) ==
    LET t == TrimSpaceToken(tok)
        upper == Text(ToUpperToken(t))
    IN  IF AliasSpecs(t) # {}
        THEN [code |-> currencyCodes[currencyAliasToIndex(t)], ok |-> TRUE]
        ELSE IF Matching(t) # {}
        THEN [code |-> FirstMatch(t), ok |-> TRUE]
        ELSE IF upper \in currencyIndexByCode
        THEN [code |-> upper, ok |-> TRUE]
        ELSE [code |-> "", ok |-> FALSE]

\* variant: whatever is left is taken for a code
normalizeCurrencyAnyCode(tok) ==
    LET t == ToLowerToken(TrimSpaceToken(tok))
        upper == Text(ToUpperToken(t))
    IN  IF AliasSpecs(t) # {}
        THEN [code |-> currencyCodes[currencyAliasToIndex(t)], ok |-> TRUE]
        ELSE IF Matching(t) # {}
        THEN [code |-> FirstMatch(t), ok |-> TRUE]
        ELSE [code |-> upper, ok |-> upper # ""]

normalizeCurrency(tok) ==
    LET t == ToLowerToken(TrimSpaceToken(tok))
        upper == Text(ToUpperToken(t))
    IN  IF AliasSpecs(t) # {}
        THEN [code |-> currencyCodes[currencyAliasToIndex(t)], ok |-> TRUE]
        ELSE IF Matching(t) # {}
        THEN [code |-> FirstMatch(t), ok |-> TRUE]
        ELSE IF upper \in currencyIndexByCode
        THEN [code |-> upper, ok |-> TRUE]
        ELSE [code |-> "", ok |-> FALSE]

----------------------------------------------------------------------------
(* The offer commands: parseOfferCommand. A word of the command is a token *)
(* as above; the words here are all digits or have no digit.               *)

\* ParsedOffer{}: the zero value of the struct
NoOffer == [HaveAmount |-> 0, HaveCurrency |-> "", WantAmount |-> 0, WantCurrency |-> ""]

digitOf == [i \in 0..9 |-> <<"0", "1", "2", "3", "4", "5", "6", "7", "8", "9">>[i + 1]]
IsDigit(c) == \E i \in 0..9 : digitOf[i] = c
DigitValue(c) == CHOOSE i \in 0..9 : digitOf[i] = c

RECURSIVE Decimal(_)
Decimal(t) == IF t = <<>> THEN 0 ELSE 10 * Decimal(SubSeq(t, 1, Len(t) - 1)) + DigitValue(t[Len(t)])

\* parseNum on a word without decimal separator
parseNum(t) ==
    IF t # <<>> /\ (\A i \in 1..Len(t) : IsDigit(t[i]))
    THEN [n |-> Decimal(t), ok |-> TRUE]
    ELSE [n |-> 0, ok |-> FALSE]

\* the returns of the joined forms: n the digits as a number, c the other
\* part as a currency
Joined(n, c) == IF n.n = 0 \/ ~c.ok THEN [c |-> "", v |-> 0] ELSE [c |-> c.code, v |-> n.n]

AllDigits(t) == \A i \in 1..Len(t) : IsDigit(t[i])

\* checkJoinedAmountThenCurrency: digits followed by one more character, a
\* currency; on a word of digits that character is the last digit
checkJoinedAmountThenCurrency(t) ==
    IF Len(t) >= 2 /\ AllDigits(t)
    THEN Joined(parseNum(SubSeq(t, 1, Len(t) - 1)), normalizeCurrency(<<t[Len(t)]>>))
    ELSE [c |-> "", v |-> 0]

\* checkJoinedCurrencyThenAmount: one character, a currency, followed by
\* digits; on a word of digits that character is the first digit
checkJoinedCurrencyThenAmount(t) ==
    IF Len(t) >= 2 /\ AllDigits(t)
    THEN Joined(parseNum(Tail(t)), normalizeCurrency(<<Head(t)>>))
    ELSE [c |-> "", v |-> 0]

\* the returns of findOfferTokenPurpose, a and b being what the joined forms
\* found, n the word as a number and c the word as a currency
Purpose(a, b, n, c) ==
    IF a.v > 0 THEN a
    ELSE IF b.v > 0 THEN b
    ELSE IF n.ok /\ n.n > 0 THEN [c |-> "", v |-> n.n]
    ELSE IF c.ok THEN [c |-> c.code, v |-> 0]
    ELSE [c |-> "", v |-> 0]

findOfferTokenPurpose(t) ==
    Purpose(checkJoinedAmountThenCurrency(t), checkJoinedCurrencyThenAmount(t),
            parseNum(t), normalizeCurrency(t))

\* the state of the loop over parts: index, currency, amount, and the error
\* it returned with, if any
LoopStart == [index |-> 0, currency |-> <<"", "">>, amount |-> <<0, 0>>, err |-> ""]

\* if v != 0 {...} for the slot index
LoopAmount(st, v, index, currency) ==
    IF v # 0 /\ st.amount[index + 1] # 0
    THEN [st EXCEPT !.err = "first currency must be specified before second"]
    ELSE [index |-> index, currency |-> currency,
          amount |-> IF v # 0 THEN [st.amount EXCEPT ![index + 1] = v] ELSE st.amount,
          err |-> ""]

\* if c != "" {...}: the slot moves on, and is filled, only when it is taken
LoopCurrency(st, f) ==
    IF f.c # "" /\ st.currency[st.index + 1] # ""
    THEN IF st.index + 1 > 1 THEN [st EXCEPT !.err = "too many currencies"]
         ELSE LoopAmount(st, f.v, st.index + 1, [st.currency EXCEPT ![st.index + 2] = f.c])
    ELSE LoopAmount(st, f.v, st.index, st.currency)

\* one round of the loop, for the word p
LoopBody(st, p) ==
    IF st.err # "" THEN st
    ELSE LoopCurrency(st, findOfferTokenPurpose(ToLowerToken(TrimSpaceToken(p))))

RECURSIVE Loop(_, _)
Loop(st, parts) == IF parts = <<>> THEN st ELSE Loop(LoopBody(st, Head(parts)), Tail(parts))

Failed(e) == [offer |-> NoOffer, err |-> e]

\* what parseOfferCommand returns after the loop ended in st
Returned(command, st) ==
    IF st.err # "" THEN Failed(st.err)
    ELSE IF st.currency[2] = "" /\ st.amount[2] # 0
    THEN Failed("second currency must be specified if second amount is given")
    ELSE IF st.amount[1] = 0 /\ st.amount[2] = 0
    THEN Failed("at least one amount must be specified")
    ELSE IF command = "buy"
    THEN [offer |-> [HaveAmount |-> st.amount[2], HaveCurrency |-> st.currency[2],
                     WantAmount |-> st.amount[1], WantCurrency |-> st.currency[1]],
          err |-> ""]
    ELSE [offer |-> [HaveAmount |-> st.amount[1], HaveCurrency |-> st.currency[1],
                     WantAmount |-> st.amount[2], WantCurrency |-> st.currency[2]],
          err |-> ""]

parseOfferCommand(command, parts) ==
    IF parts = <<>> THEN Failed("insufficient parameters")
    ELSE IF command \notin {"sell", "buy"} THEN Failed("unknown offer type")
    ELSE Returned(command, Loop(LoopStart, parts))

----------------------------------------------------------------------------
(* Channels *)

HasRoom == Len(reqCh) < MailboxCap

\* c.reqCh <- m
Send(m) ==
    /\ HasRoom
    /\ reqCh' = Append(reqCh, [m EXCEPT !.seq = sent + 1])
    /\ sent' = sent + 1

\* m.respCh <- r ; the refreshReq the manager sends to itself has a reply
\* channel nobody reads (who = "self")
Replied(cs, who, r) ==
    IF who \in Callers THEN [cs EXCEPT ![who].respCh = Append(@, r)] ELSE cs

\* variant: make(chan computeResp), a reply channel without buffer
respChUnbuffered == 1 - 1

\* respCh := make(chan computeResp, 1), and so for every reply channel
respChCap == 1

\* a send on who's reply channel goes through without a receiver
ReplyRoom(who) == who \in Callers => Len(callers[who].respCh) < respChCap

Reply(who, r) == ReplyRoom(who) /\ callers' = Replied(callers, who, r)

\* Map objects. A snapshot reply holds a reference to a map object: "copy",
\* an object of its own, "store", the object c.rates refers to, or "old", an
\* object c.rates referred to before it was assigned another one.
\* c.rates[code] = r writes into the object c.rates refers to: every holder
\* of that object sees the write
Aliased(cs, m) ==
    [c \in Callers |->
        IF cs[c].respCh # <<>> /\ Head(cs[c].respCh).kind = "snapshot"
                               /\ Head(cs[c].respCh).ref = "store"
        THEN [cs[c] EXCEPT !.respCh = <<[Head(cs[c].respCh) EXCEPT !.rates = m]>>]
        ELSE cs[c]]

\* c.rates = newMap makes c.rates refer to another object: holders of the
\* former one keep it
Detached(cs) ==
    [c \in Callers |->
        IF cs[c].respCh # <<>> /\ Head(cs[c].respCh).kind = "snapshot"
                               /\ Head(cs[c].respCh).ref = "store"
        THEN [cs[c] EXCEPT !.respCh = <<[Head(cs[c].respCh) EXCEPT !.ref = "old"]>>]
        ELSE cs[c]]

computeReq(who, k, a) ==
    [type |-> "compute", who |-> who, seq |-> 0, knownCurrency |-> k, knownAmount |-> a]
refreshReq(who, t) ==
    [type |-> "refresh", who |-> who, seq |-> 0, timeout |-> t]
applySingle(code, r) ==
    [type |-> "apply", who |-> "self", seq |-> 0, code |-> code, rate |-> r]
snapshotReq(who) ==
    [type |-> "snapshot", who |-> who, seq |-> 0]

NoMsg == [type |-> "none", who |-> "self", seq |-> 0]

NoTrip == [from |-> "", to |-> "", x |-> 0,
           there |-> [v |-> Whole(0), ok |-> FALSE],
           back |-> [v |-> Whole(0), ok |-> FALSE]]

NoParse == [command |-> "", parts |-> <<>>, offer |-> NoOffer, err |-> ""]

MaxUpdates == 3
MaxStops == 2

\* update IDs Telegram hands out
UpdateIDs == 1..MaxUpdates

\* the bot before main has started it: no update processed, last_update_id
\* 0 in bot_settings; handled, unsaved and stops are history
BotDown ==
    [pc |-> "down", offset |-> 0, update |-> 0, last_update_id |-> 0,
     done |-> 0, outcome |-> "none", saved |-> FALSE,
     handled |-> [i \in UpdateIDs |-> 0], unsaved |-> {}, stops |-> 0]

----------------------------------------------------------------------------
(* Initial state: main has called initCurrencyRates(secrets.TBCApiKey) *)

Init ==
    /\ cache \in {"nil", "live"}
    /\ now = 1
    /\ base = ""
    /\ rates = EmptyMap
    /\ lastUpdated = 0
    /\ reqCh = <<>>
    /\ actorPc = IF cache = "live" THEN "init" ELSE "none"
    /\ cur = NoMsg
    /\ lastTick = 1
    /\ async = [pc |-> "idle", out |-> NoResponse, m |-> EmptyMap, now |-> 0,
                err |-> FALSE]
    /\ fetching = [c \in FetchCodes |-> 0]
    /\ callers = [c \in Callers |->
                    [pc |-> "ready", left |-> MaxReqs, respCh |-> <<>>, last |-> "none",
                     want |-> "", refAt |-> 0]]
    /\ sent = 0
    /\ lastSeq = 0
    /\ handling = 0
    /\ applied = {}
    /\ replaced = {}
    /\ replacedAt = 0
    /\ token = <<>>
    /\ normalized = [code |-> "", ok |-> FALSE]
    /\ trip = NoTrip
    /\ parsed = NoParse
    /\ bot = BotDown

----------------------------------------------------------------------------
(* Time *)

\* Every provider call but the refresh of a refreshReq{timeout: 0} carries a
\* timeout of at most 60 seconds, far below the clock unit: the clock moves
\* only while no such call is in flight.
NoTimedCall ==
    /\ actorPc \in {"none", "idle", "crashed"} \/ (actorPc = "refresh" /\ cur.timeout = 0)
    /\ async.pc = "idle"
    /\ \A c \in FetchCodes : fetching[c] = 0

AdvanceClock ==
    /\ now < MaxTime
    /\ NoTimedCall
    /\ now' = now + 1
    /\ UNCHANGED <<bot, trip, parsed, token, normalized, cache, storeVars, reqCh, actorPc, cur, lastTick, async, fetching,
                   callers, sent, lastSeq, handling, applied, replaced, replacedAt>>

----------------------------------------------------------------------------
(* The bot layer: handleBuySellCommand and handleRatesCommand *)

\* ctx.rates.computeCounterAmount(...) up to the send on reqCh
\* storedOffer.WantCurrency (w, "" when the command names none) is handed to
\* the call but computeReq has no field for it
CallerCompute(c, k, w, a) ==
    /\ cache = "live"
    /\ callers[c].pc = "ready" /\ callers[c].left > 0
    /\ <<k, w>> \in Offers
    /\ Send(computeReq(c, k, a))
    /\ callers' = [callers EXCEPT ![c].pc = "waiting", ![c].left = @ - 1, ![c].want = w]
    /\ UNCHANGED <<bot, trip, parsed, token, normalized, cache, now, storeVars, actorPc, cur, lastTick, async, fetching,
                   lastSeq, handling, applied, replaced, replacedAt>>

\* handleBuySellCommand after computeCounterAmount returned r for the offer
\* a k, wanted currency w, WantAmount 0: the offer it replies with and saves
storedOffer(k, a, w, r) ==
    IF r.err
    THEN [HaveAmount |-> Whole(a), HaveCurrency |-> k,
          WantAmount |-> Whole(0), WantCurrency |-> w]
    ELSE [HaveAmount |-> Whole(a), HaveCurrency |-> k,
          WantAmount |-> r.otherAmount, WantCurrency |-> r.otherCurrency]

\* the same call on the nil cache of a bot started without API key:
\* c.reqCh dereferences a nil pointer
CallerComputeNil(c, k, a) ==
    /\ cache = "nil"
    /\ callers[c].pc = "ready" /\ callers[c].left > 0
    /\ callers' = [callers EXCEPT ![c].left = @ - 1, ![c].last = "panic"]
    /\ UNCHANGED <<bot, trip, parsed, token, normalized, cache, now, storeVars, reqCh, actorPc, cur, lastTick, async, fetching,
                   sent, lastSeq, handling, applied, replaced, replacedAt>>

\* ctx.rates.reqCh <- refreshReq{timeout: 0, respCh: done}
CallerRefresh(c) ==
    /\ cache = "live"
    /\ callers[c].pc = "ready" /\ callers[c].left > 0
    /\ Send(refreshReq(c, 0))
    /\ callers' = [callers EXCEPT ![c].pc = "waiting", ![c].left = @ - 1]
    /\ UNCHANGED <<bot, trip, parsed, token, normalized, cache, now, storeVars, actorPc, cur, lastTick, async, fetching,
                   lastSeq, handling, applied, replaced, replacedAt>>

\* snapshot() up to the send on reqCh
CallerSnapshot(c) ==
    /\ cache = "live"
    /\ callers[c].pc = "ready" /\ callers[c].left > 0
    /\ Send(snapshotReq(c))
    /\ callers' = [callers EXCEPT ![c].pc = "waiting", ![c].left = @ - 1]
    /\ UNCHANGED <<bot, trip, parsed, token, normalized, cache, now, storeVars, actorPc, cur, lastTick, async, fetching,
                   lastSeq, handling, applied, replaced, replacedAt>>

\* handleRatesCommand goes on to its snapshot when the refresh came back
\* nil: the time of that refresh, 0 after any other reply
RefreshedAt(cl) ==
    LET r == Head(cl.respCh)
    IN  IF r.kind = "refresh" /\ ~r.err THEN r.seen.at ELSE 0

\* resp := <-respCh ; the caller uses the reply at once and keeps only
\* which call it has completed and when its refresh succeeded
CallerRecv(c) ==
    /\ callers[c].pc = "waiting"
    /\ callers[c].respCh # <<>>
    /\ callers' = [callers EXCEPT ![c].pc = "ready",
                                  ![c].last = Head(callers[c].respCh).kind,
                                  ![c].want = "",
                                  ![c].refAt = RefreshedAt(callers[c]),
                                  ![c].respCh = <<>>]
    /\ UNCHANGED <<bot, trip, parsed, token, normalized, cache, now, storeVars, reqCh, actorPc, cur, lastTick, async, fetching,
                   sent, lastSeq, handling, applied, replaced, replacedAt>>

----------------------------------------------------------------------------
(* The manager goroutine: run *)

\* the full refresh of _refresh applied to the store; a changed base panics
RefreshApply(out) ==
    IF base # "" /\ ~EqualFold(base, out.Base)
    THEN /\ actorPc' = "crashed"
         /\ UNCHANGED <<storeVars, applied, replaced, replacedAt>>
    ELSE /\ actorPc' = "idle"
         /\ base' = ToUpper(out.Base)
         /\ rates' = SyncMap(out, now)
         /\ lastUpdated' = now
         /\ applied' = {}
         /\ replaced' = DOMAIN SyncMap(out, now)
         /\ replacedAt' = now

\* variant: a failed refresh leaves an emptied, stale store
RefreshFailedClears ==
    /\ rates' = EmptyMap
    /\ lastUpdated' = 0
    /\ UNCHANGED <<base, applied, replaced, replacedAt>>

\* _refresh returns the error of its provider call
RefreshFailed == UNCHANGED <<storeVars, applied, replaced, replacedAt>>

\* variant: the manager gives up when its first refresh fails
InitialRefreshFatal == actorPc' = "crashed" /\ RefreshFailed

\* _ = c._refresh(...): the error is dropped, the loop starts
InitialRefreshFailed == actorPc' = "idle" /\ RefreshFailed

\* _ = c._refresh(60 * time.Second) before the loop
InitialRefreshFrom(answers) ==
    /\ actorPc = "init"
    /\ \/ \E out \in answers : RefreshApply(out)
       \/ InitialRefreshFailed
    /\ callers' = IF rates' = rates THEN callers ELSE Detached(callers)
    /\ UNCHANGED <<bot, trip, parsed, token, normalized, cache, now, reqCh, cur, lastTick, async, fetching,
                   sent, lastSeq, handling>>

InitialRefresh == InitialRefreshFrom(FullResponses)

\* the loop is back at its select
ActorIdle == actorPc = "idle"

\* variant: the newest message is taken first
NextMsgNewest == reqCh[Len(reqCh)]

\* msg := <-c.reqCh
NextMsg == Head(reqCh)
RestMsgs == Tail(reqCh)

Receive(type) ==
    /\ ActorIdle
    /\ reqCh # <<>>
    /\ NextMsg.type = type
    /\ reqCh' = RestMsgs
    /\ lastSeq' = NextMsg.seq

\* variant: two goroutines for the code
StartSingleTwice(code) ==
    LET c == ToUpper(TrimSpace(code))
    IN  IF c = "" \/ EqualFold(c, base)
        THEN UNCHANGED fetching
        ELSE fetching' = [fetching EXCEPT ![c] = @ + 2]

\* _startSingleRateUpdate: the goroutine it starts, unless the code is the base
StartSingle(code) ==
    LET c == ToUpper(TrimSpace(code))
    IN  IF c = "" \/ EqualFold(c, base)
        THEN UNCHANGED fetching
        ELSE fetching' = [fetching EXCEPT ![c] = @ + 1]

\* case computeReq: entry of _computeCounterAmountInternal
\* the request in hand, with history kept for the duration of its handling:
\* the store as it was when the handling began, and how many currencies the
\* refresh decision found in need of an update (0 before the decision)
InHand(m) ==
    [type |-> m.type, who |-> m.who, seq |-> m.seq, knownCurrency |-> m.knownCurrency,
     knownAmount |-> m.knownAmount,
     entry |-> [base |-> base, rates |-> rates, lastUpdated |-> lastUpdated],
     stale |-> 0]

ActorRecvCompute ==
    /\ Receive("compute")
    /\ cur' = InHand(NextMsg)
    /\ actorPc' = "updates"
    /\ handling' = handling + 1
    /\ UNCHANGED <<bot, trip, parsed, token, normalized, cache, now, storeVars, lastTick, async, fetching, callers, sent,
                   applied, replaced, replacedAt>>

\* the refresh decision of _computeCounterAmountInternal: one currency to
\* update starts a single fetch, anything else sends a refreshReq to reqCh
ActorUpdates ==
    /\ actorPc = "updates"
    /\ LET from == cur.knownCurrency
           to == defaultCounterCurrency(from)
           updates == Updates(from, to)
       IN  IF Len(updates) = 1
           THEN StartSingle(updates[1]) /\ UNCHANGED <<reqCh, sent>>
           ELSE Send(refreshReq("self", 5)) /\ UNCHANGED fetching
    /\ cur' = [cur EXCEPT !.stale = Len(Updates(cur.knownCurrency,
                                                defaultCounterCurrency(cur.knownCurrency)))]
    /\ actorPc' = "convert"
    /\ UNCHANGED <<bot, trip, parsed, token, normalized, cache, now, storeVars, lastTick, async, callers,
                   lastSeq, handling, applied, replaced, replacedAt>>

\* variant: a failed conversion is reported as a successful amount of 0
ComputeResultZeroOnFailure(d, from, to, amount) ==
    LET p == getPairRateFromList(from, to, amount)
    IN  IF d.ok THEN [cur |-> to, amt |-> Whole(d.value), err |-> FALSE]
        ELSE IF p.ok THEN [cur |-> to, amt |-> p.v, err |-> FALSE]
        ELSE [cur |-> to, amt |-> Whole(0), err |-> FALSE]

\* variant: the cached cross-rate is preferred to the provider's value
ComputeResultCacheFirst(d, from, to, amount) ==
    LET p == getPairRateFromList(from, to, amount)
    IN  IF p.ok THEN [cur |-> to, amt |-> p.v, err |-> FALSE]
        ELSE IF d.ok THEN [cur |-> to, amt |-> Whole(d.value), err |-> FALSE]
        ELSE [cur |-> to, amt |-> Whole(0), err |-> TRUE]

\* the three returns of _computeCounterAmountInternal, d being the outcome
\* of tryConvertEndpoint
ComputeResult(d, from, to, amount) ==
    LET p == getPairRateFromList(from, to, amount)
    IN  IF d.ok THEN [cur |-> to, amt |-> Whole(d.value), err |-> FALSE]
        ELSE IF p.ok THEN [cur |-> to, amt |-> p.v, err |-> FALSE]
        ELSE [cur |-> to, amt |-> Whole(0), err |-> TRUE]

\* what the handling of a computeReq saw, kept with the reply
ComputeSeen(d, from, to, amount) ==
    [from |-> from, to |-> to, known |-> amount, dOk |-> d.ok, dVal |-> d.value,
     base |-> base, at |-> now,
     pFrom |-> from \in DOMAIN rates, qFrom |-> IF from \in DOMAIN rates THEN rates[from] ELSE ZeroRate,
     pTo |-> to \in DOMAIN rates, qTo |-> IF to \in DOMAIN rates THEN rates[to] ELSE ZeroRate]

\* tryConvertEndpoint returns, then getPairRateFromList, then the reply
ActorConvertDone ==
    /\ actorPc = "convert"
    /\ \E d \in ConvertOutcomes :
         LET from == cur.knownCurrency
             to == defaultCounterCurrency(from)
             r == ComputeResult(d, from, to, cur.knownAmount)
         IN  Reply(cur.who, [kind |-> "compute", otherCurrency |-> r.cur,
                             otherAmount |-> r.amt, err |-> r.err,
                             seen |-> ComputeSeen(d, from, to, cur.knownAmount)])
    /\ actorPc' = "idle"
    /\ cur' = NoMsg
    /\ handling' = handling - 1
    /\ UNCHANGED <<bot, trip, parsed, token, normalized, cache, now, storeVars, reqCh, lastTick, async, fetching,
                   sent, lastSeq, applied, replaced, replacedAt>>

\* variant: a refreshReq on a fresh cache is answered without a fetch
ActorRecvRefreshIfStale ==
    /\ Receive("refresh")
    /\ IF lastUpdated # 0 /\ now - lastUpdated <= FreshThreshold
       THEN /\ Reply(NextMsg.who, [kind |-> "refresh", err |-> FALSE,
                                   seen |-> [fetched |-> FALSE, at |-> now]])
            /\ UNCHANGED <<cur, actorPc, handling>>
       ELSE /\ cur' = NextMsg
            /\ actorPc' = "refresh"
            /\ handling' = handling + 1
            /\ UNCHANGED callers
    /\ UNCHANGED <<bot, trip, parsed, token, normalized, cache, now, storeVars, lastTick, async, fetching, sent,
                   applied, replaced, replacedAt>>

\* case refreshReq: _refresh up to its provider call
ActorRecvRefresh ==
    /\ Receive("refresh")
    /\ cur' = NextMsg
    /\ actorPc' = "refresh"
    /\ handling' = handling + 1
    /\ UNCHANGED <<bot, trip, parsed, token, normalized, cache, now, storeVars, lastTick, async, fetching, callers, sent,
                   applied, replaced, replacedAt>>

\* what the handling of a refreshReq saw, kept with the reply: whether the
\* provider call succeeded and when it returned
RefreshSeen(fetched) == [fetched |-> fetched, at |-> now]

\* the provider call of _refresh returns; m.respCh <- its result
ActorRefreshDoneFrom(answers) ==
    /\ actorPc = "refresh"
    /\ \/ /\ \E out \in answers : RefreshApply(out)
          /\ IF actorPc' = "crashed"
             THEN UNCHANGED <<callers, cur, handling>>
             ELSE /\ ReplyRoom(cur.who)
                  /\ callers' = Replied(Detached(callers), cur.who,
                                         [kind |-> "refresh", err |-> FALSE,
                                          seen |-> RefreshSeen(TRUE)])
                  /\ cur' = NoMsg
                  /\ handling' = handling - 1
       \/ /\ Reply(cur.who, [kind |-> "refresh", err |-> TRUE,
                             seen |-> RefreshSeen(FALSE)])
          /\ actorPc' = "idle"
          /\ cur' = NoMsg
          /\ handling' = handling - 1
          /\ RefreshFailed
    /\ UNCHANGED <<bot, trip, parsed, token, normalized, cache, now, reqCh, lastTick, async, fetching, sent, lastSeq>>

ActorRefreshDone == ActorRefreshDoneFrom(FullResponses)

\* variant: only a key already in the map is updated
ApplyRateExistingOnly(m) ==
    IF m.code \in DOMAIN rates THEN MapPut(rates, m.code, m.rate) ELSE rates

\* variant: the map is replaced by the one entry
ApplyRateAlone(m) == [k \in {m.code} |-> m.rate]

\* case applySingle
ApplyRate(m) ==
    LET r == IF m.rate.LastUpdated = 0
             THEN [m.rate EXCEPT !.LastUpdated = now] ELSE m.rate
    IN  MapPut(rates, m.code, r)

ActorApplySingle ==
    /\ Receive("apply")
    /\ rates' = ApplyRate(NextMsg)
    /\ lastUpdated' = now
    /\ applied' = applied \cup {NextMsg.code}
    /\ callers' = Aliased(callers, ApplyRate(NextMsg))
    /\ UNCHANGED <<bot, trip, parsed, token, normalized, cache, now, base, actorPc, cur, lastTick, async, fetching,
                   sent, handling, replaced, replacedAt>>

\* variant: the reply carries c.rates itself
SnapshotRefStore == "store"

\* case snapshotReq: copyMap is a map object of its own, filled entry by
\* entry from c.rates
SnapshotRef == "copy"
SnapshotCopy == [k \in DOMAIN rates |-> rates[k]]

ActorSnapshot ==
    /\ Receive("snapshot")
    /\ Reply(NextMsg.who, [kind |-> "snapshot", base |-> base, cacheUpdate |-> lastUpdated,
                           rates |-> SnapshotCopy, ref |-> SnapshotRef,
                           seen |-> [applied |-> applied, replaced |-> replaced,
                                     replacedAt |-> replacedAt, seq |-> NextMsg.seq,
                                     asyncErr |-> async.err]])
    /\ UNCHANGED <<bot, trip, parsed, token, normalized, cache, now, storeVars, actorPc, cur, lastTick, async, fetching,
                   sent, handling, applied, replaced, replacedAt>>

----------------------------------------------------------------------------
(* The periodic refresh: refreshIfStaleAsync and the goroutine it starts *)

\* variant: the time of the tick instead of the oldest timestamp
OldestIsNow == now

\* oldest := time.Now(), lowered by every older LastUpdated
Oldest == Min({now} \cup {rates[k].LastUpdated : k \in DOMAIN rates})

AnyOld == \E k \in DOMAIN rates : rates[k].LastUpdated = 0

\* first return of refreshIfStaleAsync
TickReturnsEarly == lastUpdated # 0 /\ now - lastUpdated > UpdateThreshold

\* second return: every rate is recent, the cache timestamp is aligned
TickAligns == DOMAIN rates # {} /\ ~AnyOld /\ now - Oldest < UpdateThreshold

\* case <-ticker.C
ActorTick ==
    /\ ActorIdle
    /\ now - lastTick >= TickerPeriod
    /\ lastTick' = lastTick + TickerPeriod * ((now - lastTick) \div TickerPeriod)
    /\ IF TickReturnsEarly
       THEN UNCHANGED <<lastUpdated, async>>
       ELSE IF TickAligns
       THEN lastUpdated' = Oldest /\ UNCHANGED async
       ELSE /\ async.pc = "idle"
            /\ async' = [async EXCEPT !.pc = "fetch", !.err = FALSE]
            /\ UNCHANGED lastUpdated
    /\ UNCHANGED <<bot, trip, parsed, token, normalized, cache, now, base, rates, reqCh, actorPc, cur, fetching, callers,
                   sent, lastSeq, handling, applied, replaced, replacedAt>>

\* variant: a failed periodic fetch marks the cache as never updated
AsyncFetchFailedResets ==
    /\ async' = [async EXCEPT !.pc = "idle", !.err = TRUE]
    /\ lastUpdated' = 0
    /\ UNCHANGED <<base, rates>>

\* if err != nil { return } in the goroutine; err notes that its last fetch
\* failed
AsyncFetchFailed ==
    /\ async' = [async EXCEPT !.pc = "idle", !.err = TRUE]
    /\ UNCHANGED storeVars

\* getTBCCurrencyRatesCtx returns in the goroutine
AsyncFetchDoneFrom(answers) ==
    /\ async.pc = "fetch"
    /\ \/ /\ \E out \in answers : async' = [async EXCEPT !.pc = "base", !.out = out]
          /\ UNCHANGED storeVars
       \/ AsyncFetchFailed
    /\ UNCHANGED <<bot, trip, parsed, token, normalized, cache, now, reqCh, actorPc, cur, lastTick, fetching, callers,
                   sent, lastSeq, handling, applied, replaced, replacedAt>>

AsyncFetchDone == AsyncFetchDoneFrom(FullResponses)

\* the goroutine compares and writes c.base, then builds its map
AsyncBase ==
    /\ async.pc = "base"
    /\ base' = IF ~EqualFold(base, async.out.Base) THEN ToUpper(async.out.Base) ELSE base
    /\ async' = [async EXCEPT !.pc = "ts", !.now = now, !.m = AsyncMap(async.out, now)]
    /\ UNCHANGED <<bot, trip, parsed, token, normalized, cache, now, rates, lastUpdated, reqCh, actorPc, cur, lastTick, fetching,
                   callers, sent, lastSeq, handling, applied, replaced, replacedAt>>

\* the goroutine writes c.lastUpdated = now
AsyncWriteLastUpdated ==
    /\ async.pc = "ts"
    /\ lastUpdated' = async.now
    /\ async' = [async EXCEPT !.pc = "rates"]
    /\ UNCHANGED <<bot, trip, parsed, token, normalized, cache, now, base, rates, reqCh, actorPc, cur, lastTick, fetching,
                   callers, sent, lastSeq, handling, applied, replaced, replacedAt>>

\* the goroutine writes c.rates = m and ends
AsyncWriteRates ==
    /\ async.pc = "rates"
    /\ rates' = async.m
    /\ applied' = {}
    /\ replaced' = DOMAIN async.m
    /\ replacedAt' = async.now
    /\ async' = [pc |-> "idle", out |-> NoResponse, m |-> EmptyMap, now |-> 0,
                 err |-> FALSE]
    /\ callers' = Detached(callers)
    /\ UNCHANGED <<bot, trip, parsed, token, normalized, cache, now, base, lastUpdated, reqCh, actorPc, cur, lastTick, fetching,
                   sent, lastSeq, handling>>

----------------------------------------------------------------------------
(* The goroutine of _startSingleRateUpdate *)

\* the entries of the response that the loop over CommercialRatesList sends
SingleMatches(list, code) ==
    {i \in 1..Len(list) : EqualFold(list[i].Currency, code)}

FetchDone(code) ==
    /\ fetching[code] > 0
    /\ \/ \E list \in SingleResponses(code) :
            /\ SingleMatches(list, code) # {}
            /\ LET r == list[Min(SingleMatches(list, code))]
               IN  Send(applySingle(code, tbcRate(r.Buy, r.Sell, now)))
       \/ UNCHANGED <<reqCh, sent>>
    /\ fetching' = [fetching EXCEPT ![code] = @ - 1]
    /\ UNCHANGED <<bot, trip, parsed, token, normalized, cache, now, storeVars, actorPc, cur, lastTick, async, callers,
                   lastSeq, handling, applied, replaced, replacedAt>>

----------------------------------------------------------------------------

Next ==
    \/ AdvanceClock
    \/ \E c \in Callers, k \in KnownCurrencies, w \in WantCurrencies, a \in KnownAmounts :
           CallerCompute(c, k, w, a)
    \/ \E c \in Callers, k \in KnownCurrencies, a \in KnownAmounts : CallerComputeNil(c, k, a)
    \/ \E c \in Callers : CallerRefresh(c)
    \/ \E c \in Callers : CallerSnapshot(c)
    \/ \E c \in Callers : CallerRecv(c)
    \/ InitialRefresh
    \/ ActorRecvCompute
    \/ ActorUpdates
    \/ ActorConvertDone
    \/ ActorRecvRefresh
    \/ ActorRefreshDone
    \/ ActorApplySingle
    \/ ActorSnapshot
    \/ ActorTick
    \/ AsyncFetchDone
    \/ AsyncBase
    \/ AsyncWriteLastUpdated
    \/ AsyncWriteRates
    \/ \E code \in FetchCodes : FetchDone(code)

Spec == Init /\ [][Next]_vars

----------------------------------------------------------------------------
(* The registry on its own: tokens are normalised one after the other, as  *)
(* findOfferTokenPurpose does for the words of a command                   *)

Blanks == {<<>>, <<" ">>, <<"\t", " ">>}

\* an alias as written, in capitals, and capitalised
Spellings(a) == {a, ToUpperToken(a), <<ToUpperRune(Head(a))>> \o Tail(a)}

AliasTokens ==
    UNION {UNION {{pl \o v \o pr : pl \in Blanks, pr \in Blanks, v \in Spellings(spec.Aliases[j])}
                  : j \in 1..Len(spec.Aliases)}
           : spec \in {currencySpecs[i] : i \in 1..Len(currencySpecs)}}

\* words no alias spells but a pattern rule takes
PatternTokens ==
    { <<"cy_d", "cy_o", "cy_l", "cy_l", "cy_a", "cy_r">>,
      <<"CY_D", "cy_o", "cy_l", "cy_l", "cy_a", "cy_r">>,
      <<"cy_d">>, <<" ", "CY_D">>,
      <<"cy_r", "cy_u">>, <<"CY_R", "CY_U", "b">>, <<"cy_r", " ", "x">>,
      <<"cy_l", "cy_i">>, <<"CY_L", "cy_a">>, <<"cy_l", "cy_a", "cy_r", "cy_i", "x">> }

\* words the registry has no entry for
OtherTokens ==
    { <<>>, <<" ">>, <<"e", "u", "r">>, <<"E", "U", "R">>, <<" ", "E", "u", "r", " ">>,
      <<"u", "s">>, <<"u", "s", "d", "d">>, <<"u", " ", "s", "d">>, <<"$", "$">>,
      <<"u", "s", "d", "$">>, <<"x">>, <<"d">>, <<"l">>, <<"g">>, <<"L">>,
      <<"cy_a">>, <<"cy_o", "cy_l">>, <<"x", "cy_r">>, <<"r", "u", "b", "l">>,
      <<"rouble", "rouble">>, <<"lari", "x">>, <<"KA_L", "ka_l">>, <<"g", "e">> }

Tokens == AliasTokens \cup PatternTokens \cup OtherTokens

\* c, ok := normalizeCurrency(s)
NormalizeToken(tok) ==
    /\ token' = tok
    /\ normalized' = normalizeCurrency(tok)
    /\ UNCHANGED <<cache, now, storeVars, reqCh, actorPc, cur, lastTick, async, fetching,
                   callers, sent, lastSeq, handling, applied, replaced, replacedAt,
                   trip, parsed, bot>>

InitRegistry == Init /\ cache = "nil"

NextRegistry == \E tok \in Tokens : NormalizeToken(tok)

SpecRegistry == InitRegistry /\ [][NextRegistry]_vars

----------------------------------------------------------------------------
(* The cross-rate computation on the stores the refresh can install *)

\* codes converted: two listed by the provider, the base, one never cached
TripCodes == {"USD", "RUR", "GEL", "EUR"}
TripAmounts == {0, 7, 100}

\* getPairRateFromList from -> to, and of its result to -> from, as the
\* manager goroutine computes them between two messages
RoundTrip(from, to, x) ==
    /\ ActorIdle
    /\ LET there == getPairRateFromList(from, to, x)
       IN  trip' = [from |-> from, to |-> to, x |-> x, there |-> there,
                    back |-> IF there.ok THEN getPairRateOfFraction(to, from, there.v)
                             ELSE [v |-> Whole(0), ok |-> FALSE]]
    /\ UNCHANGED <<cache, now, storeVars, reqCh, actorPc, cur, lastTick, async, fetching,
                   callers, sent, lastSeq, handling, applied, replaced, replacedAt,
                   token, normalized, parsed, bot>>

NextCross ==
    \/ InitialRefresh
    \/ \E from \in TripCodes, to \in TripCodes, x \in TripAmounts : RoundTrip(from, to, x)

SpecCross == Init /\ [][NextCross]_vars

----------------------------------------------------------------------------
(* parseOfferCommand on the commands a chat can send *)

MaxParts == 4

\* words of a command: currencies as users write them, amounts, a connector
Words == { <<"U", "S", "D">>, <<"g", "e", "l">>, <<"$">>,
           <<"1", "0", "0">>, <<"2", "7", "0">>, <<"-">> }

Commands == {"sell", "buy"}

RECURSIVE PartsOf(_)
PartsOf(n) == IF n = 0 THEN {<<>>} ELSE {Append(ps, w) : ps \in PartsOf(n - 1), w \in Words}

\* strings.Fields(message.CommandArguments())
Fields == UNION {PartsOf(n) : n \in 0..MaxParts}

\* a message is parsed once, when its handler starts
ParseOffer(command, parts) ==
    /\ parsed = NoParse
    /\ LET r == parseOfferCommand(command, parts)
       IN  parsed' = [command |-> command, parts |-> parts, offer |-> r.offer, err |-> r.err]
    /\ UNCHANGED <<cache, now, storeVars, reqCh, actorPc, cur, lastTick, async, fetching,
                   callers, sent, lastSeq, handling, applied, replaced, replacedAt,
                   token, normalized, trip, bot>>

NextOffer == \E command \in Commands, parts \in Fields : ParseOffer(command, parts)

SpecOffer == Init /\ [][NextOffer]_vars

----------------------------------------------------------------------------
(* The refreshes on their own, against a provider that may give any of its *)
(* answers: the initial refresh, refreshReqs of the callers, the ticker    *)
(* and its goroutine                                                       *)

AnyResponses == FullResponses \cup OtherResponses

NextProvider ==
    \/ AdvanceClock
    \/ \E c \in Callers : CallerRefresh(c)
    \/ \E c \in Callers : CallerRecv(c)
    \/ InitialRefreshFrom(AnyResponses)
    \/ ActorRecvRefresh
    \/ ActorRefreshDoneFrom(AnyResponses)
    \/ ActorTick
    \/ AsyncFetchDoneFrom(AnyResponses)
    \/ AsyncBase
    \/ AsyncWriteLastUpdated
    \/ AsyncWriteRates

SpecProvider == Init /\ [][NextProvider]_vars

----------------------------------------------------------------------------
(* The update loop: handleUpdates *)

\* getNextUpdateId
getNextUpdateId == bot.last_update_id + 1

\* u := tgbotapi.NewUpdate(getNextUpdateId(ctx.db)); GetUpdatesChan(u)
BotStart ==
    /\ bot.pc = "down"
    /\ bot' = [bot EXCEPT !.pc = "polling", !.offset = getNextUpdateId]
    /\ UNCHANGED <<cache, now, storeVars, reqCh, actorPc, cur, lastTick, async, fetching,
                   callers, sent, lastSeq, handling, applied, replaced, replacedAt,
                   token, normalized, trip, parsed>>

\* for update := range updates: Telegram delivers the update at the offset
BotReceive ==
    /\ bot.pc = "polling"
    /\ bot.offset \in UpdateIDs
    /\ bot' = [bot EXCEPT !.pc = "handling", !.update = bot.offset]
    /\ UNCHANGED <<cache, now, storeVars, reqCh, actorPc, cur, lastTick, async, fetching,
                   callers, sent, lastSeq, handling, applied, replaced, replacedAt,
                   token, normalized, trip, parsed>>

\* what the handlers of an update can do: nothing to handle in it, return
\* nil, return an error, panic
Outcomes == {"none", "ok", "error", "panic"}

\* handleUpdate recovers a panic into an error; the loop logs errors and
\* goes on to saveLastUpdateID
AfterHandler(outcome) == "saving"

BotHandle(outcome) ==
    /\ bot.pc = "handling"
    /\ bot' = [bot EXCEPT !.pc = AfterHandler(outcome),
                          !.outcome = outcome,
                          !.handled[bot.update] = IF outcome = "none" THEN @ ELSE @ + 1]
    /\ UNCHANGED <<cache, now, storeVars, reqCh, actorPc, cur, lastTick, async, fetching,
                   callers, sent, lastSeq, handling, applied, replaced, replacedAt,
                   token, normalized, trip, parsed>>

\* saveLastUpdateID(ctx.db, update.UpdateID): the UPDATE succeeds, or fails
\* and is logged; the loop takes the next update either way
BotSave(ok) ==
    /\ bot.pc = "saving"
    /\ bot' = [bot EXCEPT !.pc = "polling",
                          !.last_update_id = IF ok THEN bot.update ELSE @,
                          !.done = bot.update,
                          !.saved = ok,
                          !.unsaved = IF ok THEN @ ELSE @ \cup {bot.update},
                          !.offset = bot.update + 1,
                          !.update = 0]
    /\ UNCHANGED <<cache, now, storeVars, reqCh, actorPc, cur, lastTick, async, fetching,
                   callers, sent, lastSeq, handling, applied, replaced, replacedAt,
                   token, normalized, trip, parsed>>

\* the bot is stopped between two updates, to be started again
BotStop ==
    /\ bot.pc = "polling"
    /\ bot.stops < MaxStops
    /\ bot' = [bot EXCEPT !.pc = "down", !.stops = @ + 1]
    /\ UNCHANGED <<cache, now, storeVars, reqCh, actorPc, cur, lastTick, async, fetching,
                   callers, sent, lastSeq, handling, applied, replaced, replacedAt,
                   token, normalized, trip, parsed>>

NextUpdates ==
    \/ BotStart
    \/ BotReceive
    \/ \E outcome \in Outcomes : BotHandle(outcome)
    \/ \E ok \in BOOLEAN : BotSave(ok)
    \/ BotStop

SpecUpdates == Init /\ [][NextUpdates]_vars

TypeOK ==
    /\ now \in 1..MaxTime
    /\ Len(reqCh) <= MailboxCap
    /\ \A c \in Callers : Len(callers[c].respCh) <= 1

----------------------------------------------------------------------------
(* Replies waiting in the callers' reply channels *)

Replies == {Head(callers[c].respCh) : c \in {d \in Callers : callers[d].respCh # <<>>}}
ComputeReplies == {r \in Replies : r.kind = "compute"}
SnapshotReplies == {r \in Replies : r.kind = "snapshot"}

\* bid of from and ask of to as the handling of a computeReq found them,
\* the base counting as 1
SeenBid(s) == IF s.from = s.base THEN One ELSE IF s.pFrom THEN s.qFrom.Buy ELSE 0
SeenAsk(s) == IF s.to = s.base THEN One ELSE IF s.pTo THEN s.qTo.Sell ELSE 0
SeenUsable(s) == SeenBid(s) # 0 /\ SeenAsk(s) # 0

\* one of the two quotes used is older than the freshness threshold
SeenStale(s) ==
    \/ s.from # s.base /\ s.pFrom /\ s.at - s.qFrom.LastUpdated > FreshThreshold
    \/ s.to # s.base /\ s.pTo /\ s.at - s.qTo.LastUpdated > FreshThreshold

----------------------------------------------------------------------------
(* C1: a snapshot never shows a partially written map: its key set is      *)
(* exactly the key set of the last wholesale replacement (empty when there *)
(* was none) together with the codes merged by applySingle since; after N  *)
(* applySingle messages for N distinct codes on an empty store it has      *)
(* exactly those N keys.                                                   *)
C1_SnapshotHasExactlyAppliedKeys ==
    \A r \in SnapshotReplies :
        /\ DOMAIN r.rates = r.seen.replaced \cup r.seen.applied
        /\ r.seen.replaced = {} => Cardinality(DOMAIN r.rates) = Cardinality(r.seen.applied)

C1_Witness ==
    \E r \in SnapshotReplies :
        /\ Cardinality(r.seen.applied) >= 2
        /\ r.seen.applied \subseteq DOMAIN r.rates

C3_SerialInArrivalOrder ==
    /\ [][lastSeq' # lastSeq => lastSeq' = lastSeq + 1]_vars
    /\ [](handling <= 1)

C3_Witness ==
    \E c \in Callers :
        /\ callers[c].last = "compute"
        /\ callers[c].respCh # <<>>
        /\ Head(callers[c].respCh).kind = "snapshot"
        /\ Head(callers[c].respCh).seen.seq = lastSeq
        /\ lastSeq >= 3

(* C4: the actor never deadlocks: it is never stuck sending on its own     *)
(* full mailbox, which nobody but itself receives from, so every request   *)
(* is eventually answered.                                                 *)
C4_ActorNeverBlocksOnOwnMailbox ==
    ~(/\ actorPc = "updates"
      /\ Len(Updates(cur.knownCurrency, defaultCounterCurrency(cur.knownCurrency))) # 1
      /\ ~HasRoom)

(* C5: without API key computeCounterAmount returns the "unavailable"      *)
(* error and never panics.                                                 *)
C5_NoKeyNeverPanics ==
    cache = "nil" => \A c \in Callers : callers[c].last # "panic"

(* C6: a ConvertRequest is answered with the error exactly when the direct *)
(* convert failed and the cross-rate could not be computed; it then        *)
(* carries no amount.                                                      *)
C6_ErrorIffBothFail ==
    \A r \in ComputeReplies :
        /\ r.err <=> (~r.seen.dOk /\ ~SeenUsable(r.seen))
        /\ r.err => r.otherAmount = Whole(0)
        /\ ~r.err => \/ (r.seen.dOk /\ r.otherAmount = Whole(r.seen.dVal))
                      \/ (SeenUsable(r.seen) /\ r.otherAmount.num > 0)

C6_Witness ==
    \E r \in ComputeReplies : r.err /\ ~r.seen.dOk /\ ~SeenUsable(r.seen)

(* C7: when direct convert fails and both quotes are usable the result is  *)
(* knownAmount * bid(from) / ask(to), the base counting as bid = ask = 1;  *)
(* with base GEL, USD bid 2.70 and RUR ask 0.030, 100 USD give 9000 RUR.   *)
C7_CrossRateValue ==
    /\ \A r \in ComputeReplies :
         ~r.seen.dOk /\ SeenUsable(r.seen) =>
            /\ ~r.err
            /\ r.otherAmount.den > 0
            /\ r.otherAmount.num * SeenAsk(r.seen) =
                 r.seen.known * SeenBid(r.seen) * r.otherAmount.den
    /\ (/\ base = "GEL" /\ {"USD", "RUR"} \subseteq DOMAIN rates
        /\ rates["USD"].Buy = 2700 /\ rates["RUR"].Sell = 30)
         => getPairRateFromList("USD", "RUR", 100) = [v |-> Whole(9000), ok |-> TRUE]

C7_Witness ==
    \E r \in ComputeReplies :
        /\ ~r.seen.dOk /\ r.seen.from = "USD" /\ r.seen.to = "RUR" /\ r.seen.known = 100
        /\ r.seen.qFrom.Buy = 2700 /\ r.seen.qTo.Sell = 30 /\ r.seen.base = "GEL"
        /\ r.otherAmount = Whole(9000) /\ ~r.err

(* C8: when the direct convert succeeds the reply carries exactly the      *)
(* provider's value and no error, whatever the cache holds.                *)
C8_DirectValueReturned ==
    \A r \in ComputeReplies :
        r.seen.dOk => ~r.err /\ r.otherAmount = Whole(r.seen.dVal) /\ r.otherCurrency = r.seen.to

C8_Witness ==
    \E r \in ComputeReplies :
        /\ r.seen.dOk /\ ~r.err /\ r.otherAmount = Whole(9100)
        /\ SeenUsable(r.seen)
        /\ r.seen.known * SeenBid(r.seen) # 9100 * SeenAsk(r.seen)

\* quotes of the current store, the base counting as bid = ask = 1
QuoteAbsent(c) == c # base /\ c \notin DOMAIN rates
Bid(c) == IF c = base THEN One ELSE IF c \in DOMAIN rates THEN rates[c].Buy ELSE 0
Ask(c) == IF c = base THEN One ELSE IF c \in DOMAIN rates THEN rates[c].Sell ELSE 0

(* C9: for from # to the cross-rate computation fails exactly when from's  *)
(* quote is absent or has bid 0, or to's quote is absent or has ask 0; a   *)
(* result it returns has a non-zero divisor and is not 0.                  *)
C9_CrossFailsIffNoRate ==
    \A from \in FetchCodes, to \in FetchCodes, a \in KnownAmounts :
        from # to =>
            LET r == getPairRateFromList(from, to, a)
            IN  /\ ~r.ok <=> (QuoteAbsent(from) \/ Bid(from) = 0 \/ QuoteAbsent(to) \/ Ask(to) = 0)
                /\ r.ok => r.v.den > 0 /\ r.v.num > 0

C9_Witness ==
    /\ \E from \in DOMAIN rates, to \in FetchCodes :
         from # to /\ rates[from].Buy = 0 /\ Ask(to) # 0 /\ ~getPairRateFromList(from, to, 100).ok
    /\ \E from \in FetchCodes, to \in DOMAIN rates :
         from # to /\ rates[to].Sell = 0 /\ Bid(from) # 0 /\ ~getPairRateFromList(from, to, 100).ok

(* C10: a quote older than the freshness threshold is no cause of error:   *)
(* when direct convert fails and both needed quotes are present with a     *)
(* non-zero needed side, the request succeeds with them however old.       *)
C10_StaleQuotesStillServe ==
    \A r \in ComputeReplies :
        ~r.seen.dOk /\ SeenStale(r.seen) /\ SeenUsable(r.seen) =>
            ~r.err /\ r.otherAmount.num > 0

C10_Witness ==
    \E r \in ComputeReplies :
        /\ ~r.seen.dOk /\ ~r.err
        /\ r.seen.pFrom /\ r.seen.at - r.seen.qFrom.LastUpdated > FreshThreshold
        /\ r.seen.pTo /\ r.seen.at - r.seen.qTo.LastUpdated > FreshThreshold

(* C11: the currency of a conversion result is the to-currency the caller  *)
(* supplied whenever it supplied one; the default table (USD -> RUR,       *)
(* GEL -> RUR, other -> USD) is used only when the caller supplied none.   *)
C11_ExplicitToCodeWins ==
    \A c \in Callers :
        callers[c].respCh # <<>> /\ Head(callers[c].respCh).kind = "compute" =>
            LET r == Head(callers[c].respCh)
            IN  IF callers[c].want # ""
                THEN r.otherCurrency = callers[c].want
                ELSE r.otherCurrency = defaultCounterCurrency(r.seen.from)

(* C12: the rates map of a snapshot is a copy of its own: it shares no map *)
(* object with the store, so a snapshot handed to a caller is changed by   *)
(* no later step of the program, store mutations included, and a write to  *)
(* it would reach no map the store holds.                                  *)
C12_SnapshotIsIndependentCopy ==
    /\ [](\A r \in SnapshotReplies : r.ref = "copy")
    /\ [][\A c \in Callers :
            (/\ callers[c].respCh # <<>> /\ callers'[c].respCh # <<>>
             /\ Head(callers[c].respCh).kind = "snapshot")
            => Head(callers'[c].respCh) = Head(callers[c].respCh)]_vars

C12_Witness ==
    \E r \in SnapshotReplies :
        /\ r.ref = "copy"
        /\ applied # r.seen.applied
        /\ DOMAIN r.rates # DOMAIN rates

\* a refresh reply put into c's reply channel by the step
NewRefreshReply(c) ==
    /\ callers[c].respCh = <<>>
    /\ callers'[c].respCh # <<>>
    /\ Head(callers'[c].respCh).kind = "refresh"

C14_FailedRefreshChangesNothing ==
    /\ [][\A c \in Callers :
            NewRefreshReply(c) /\ ~Head(callers'[c].respCh).seen.fetched =>
                storeVars' = storeVars]_vars
    /\ [][(actorPc \in {"init", "refresh"} /\ actorPc' # actorPc) =>
            \/ storeVars' = storeVars
            \/ /\ base' # "" /\ lastUpdated' = now
               /\ \A k \in DOMAIN rates' : rates'[k].LastUpdated = now]_vars
    /\ [](\A r \in Replies : r.kind = "refresh" => (r.err <=> ~r.seen.fetched))

C14_Witness ==
    \E r \in Replies :
        /\ r.kind = "refresh" /\ r.err /\ ~r.seen.fetched
        /\ DOMAIN rates # {} /\ lastUpdated # 0 /\ base # ""

(* C15: the manager never blocks on a caller: whenever it is about to send *)
(* a reply, the reply channel of that request has room; a reply channel    *)
(* holds at most one reply, and only while its caller waits for it, the    *)
(* request being neither queued nor in handling any more.                  *)
C15_ReplyAlwaysHasRoom ==
    /\ actorPc \in {"convert", "refresh"} => ReplyRoom(cur.who)
    /\ ActorIdle /\ reqCh # <<>> /\ NextMsg.type = "snapshot" => ReplyRoom(NextMsg.who)
    /\ \A c \in Callers :
         /\ Len(callers[c].respCh) <= respChCap
         /\ callers[c].respCh # <<>> =>
              /\ callers[c].pc = "waiting"
              /\ cur.who # c
              /\ \A i \in 1..Len(reqCh) : reqCh[i].who # c

C15_Witness ==
    \E c \in Callers :
        /\ callers[c].respCh # <<>>
        /\ callers[c].pc = "waiting"
        /\ actorPc = "refresh" /\ cur.who = "self"

(* C16: a background fetch that fails posts no message and changes no     *)
(* store field, and leaves the manager where it was: neither the failing   *)
(* periodic fetch nor a single-currency fetch that ends without a message  *)
(* touches the store, the mailbox or the handler in progress, so requests  *)
(* are answered afterwards as before.                                      *)
C16_FailedBackgroundFetchIsSilent ==
    /\ [][(async.pc = "fetch" /\ async'.err) =>
            /\ async'.pc = "idle"
            /\ storeVars' = storeVars /\ reqCh' = reqCh /\ sent' = sent
            /\ actorPc' = actorPc /\ cur' = cur]_vars
    /\ [][((\E code \in FetchCodes : fetching'[code] < fetching[code]) /\ sent' = sent) =>
            /\ storeVars' = storeVars /\ reqCh' = reqCh
            /\ actorPc' = actorPc /\ cur' = cur]_vars

C16_Witness ==
    /\ async.err /\ async.pc = "idle"
    /\ actorPc # "crashed"
    /\ \E r \in SnapshotReplies : r.seen.asyncErr

(* C17: the initial refresh is best-effort: whatever its outcome the       *)
(* manager enters its loop, after a failure with an empty map, no base and *)
(* no update time; as long as no refresh has succeeded the store stays so  *)
(* and the manager neither stops nor blocks, and answers its requests.     *)
C17_InitialRefreshBestEffort ==
    /\ [][(actorPc = "init" /\ actorPc' # "init") =>
            /\ actorPc' = "idle"
            /\ replacedAt' = 0 => (rates' = EmptyMap /\ base' = "" /\ lastUpdated' = 0)]_vars
    /\ [](cache = "live" /\ actorPc # "init" /\ replacedAt = 0 =>
            /\ rates = EmptyMap
            /\ actorPc # "crashed"
            /\ ~(actorPc = "updates" /\ ~HasRoom))

C17_Witness ==
    /\ replacedAt = 0 /\ lastSeq >= 2
    /\ \E r \in SnapshotReplies :
         r.rates = EmptyMap /\ r.base = "" /\ r.cacheUpdate = 0

(* C18: a conversion reply without error for a positive known amount never *)
(* carries the amount 0, also when the convert endpoint answers 2xx with a *)
(* zero or missing value.                                                  *)
C18_SuccessIsNeverZero ==
    \A r \in ComputeReplies :
        ~r.err /\ r.seen.known > 0 => r.otherAmount.num # 0

----------------------------------------------------------------------------
(* The registry claims, in the words of its contract *)

\* the same letter in either case
SameLetter(c, d) ==
    \/ c = d
    \/ c \in DOMAIN upperOf /\ upperOf[c] = d
    \/ d \in DOMAIN upperOf /\ upperOf[d] = c

\* word w spells a, letter case apart
Spells(w, a) == Len(w) = Len(a) /\ \A k \in 1..Len(a) : SameLetter(w[k], a[k])

\* tok is w with blanks around it
Surrounds(tok, m, n) ==
    /\ m + n <= Len(tok)
    /\ \A k \in 1..m : tok[k] \in {" ", "\t"}
    /\ \A k \in (Len(tok) - n + 1)..Len(tok) : tok[k] \in {" ", "\t"}

\* the word of tok: tok without the blanks around it
Word(tok) ==
    LET cut == CHOOSE mn \in (0..Len(tok)) \X (0..Len(tok)) :
                   /\ Surrounds(tok, mn[1], mn[2])
                   /\ \A pq \in (0..Len(tok)) \X (0..Len(tok)) :
                        Surrounds(tok, pq[1], pq[2]) => pq[1] + pq[2] <= mn[1] + mn[2]
    IN  SubSeq(tok, cut[1] + 1, Len(tok) - cut[2])

IsAliasOf(tok, i) ==
    \E j \in 1..Len(currencySpecs[i].Aliases) : Spells(Word(tok), currencySpecs[i].Aliases[j])

TakenByPattern(tok) ==
    Word(tok) # <<>> /\ \E c \in {"cy_r", "cy_l", "cy_d"} : SameLetter(Word(tok)[1], c)

IsCanonicalCode(tok) ==
    \E w \in {<<"R", "U", "R">>, <<"U", "S", "D">>, <<"G", "E", "L">>} : Spells(Word(tok), w)

(* C19: for every currency and every token that spells one of its aliases, *)
(* in any letter case and with blanks around it, normalizeCurrency returns *)
(* ok with that currency's canonical code; "$", "USD" and "usd" give the   *)
(* same code.                                                              *)
C19_AliasesGiveTheirCode ==
    /\ \A i \in 1..Len(currencySpecs) :
         IsAliasOf(token, i) => normalized = [code |-> currencySpecs[i].Code, ok |-> TRUE]
    /\ normalizeCurrency(<<"$">>) = normalizeCurrency(<<"U", "S", "D">>)
    /\ normalizeCurrency(<<"U", "S", "D">>) = normalizeCurrency(<<"u", "s", "d">>)
    /\ normalizeCurrency(<<"u", "s", "d">>).ok

C19_Witness ==
    /\ token = <<"\t", " ", "CY_D", "CY_O", "CY_L", "CY_L", " ">>
    /\ IsAliasOf(token, 2)
    /\ normalized = [code |-> CurUSD, ok |-> TRUE]

(* C20: a token that spells no alias, is taken by no pattern rule and      *)
(* spells no canonical code is answered not-ok with the empty code; a code *)
(* returned with ok is always one of RUR, USD, GEL.                        *)
C20_UnrecognizedIsNotOk ==
    /\ (/\ \A i \in 1..Len(currencySpecs) : ~IsAliasOf(token, i)
        /\ ~TakenByPattern(token)
        /\ ~IsCanonicalCode(token))
       => normalized = [code |-> "", ok |-> FALSE]
    /\ normalized.ok => normalized.code \in {CurRUR, CurUSD, CurGEL}

C20_Witness ==
    /\ token = <<" ", "E", "u", "r", " ">>
    /\ ~TakenByPattern(token) /\ ~IsCanonicalCode(token)
    /\ ~normalized.ok /\ normalized.code = ""

----------------------------------------------------------------------------
(* Claims about the cross-rate computation, checked under SpecCross *)

(* C21: converting any code to itself on the cached quotes, whether the   *)
(* code is cached or not and whether it is the base or not, succeeds and  *)
(* returns exactly the amount.                                            *)
C21_SameCodeIsIdentity ==
    trip.from = trip.to /\ trip.from # "" =>
        /\ trip.there.ok
        /\ trip.there.v = Whole(trip.x)

C21_Witness ==
    /\ trip.from = "EUR" /\ trip.to = "EUR" /\ trip.x = 100
    /\ "EUR" \notin DOMAIN rates /\ "EUR" # base
    /\ trip.there = [v |-> Whole(100), ok |-> TRUE]

Dearer(c) == Bid(c) < Ask(c)

(* C22: converting X > 0 from A to another code B and the result back to  *)
(* A, both times successfully, yields X*bid(A)*bid(B)/(ask(A)*ask(B)),    *)
(* the base counting as bid = ask = 1; when bid <= ask holds for the      *)
(* quotes involved this is never more than X, and it is X only if bid =   *)
(* ask on both of them.                                                   *)
C22_RoundTripLosesTheSpread ==
    LET A == trip.from
        B == trip.to
    IN  (A # B /\ trip.x > 0 /\ trip.there.ok /\ trip.back.ok) =>
            /\ trip.back.v = Quot(trip.x * Bid(A) * Bid(B), Ask(A) * Ask(B))
            /\ (Bid(A) <= Ask(A) /\ Bid(B) <= Ask(B)) =>
                   /\ trip.back.v.num <= trip.x * trip.back.v.den
                   /\ trip.back.v = Whole(trip.x) => ~Dearer(A) /\ ~Dearer(B)

C22_Witness ==
    /\ trip.from = "USD" /\ trip.to = "RUR" /\ trip.x = 100
    /\ trip.there.ok /\ trip.back.ok
    /\ Dearer("USD") /\ Dearer("RUR")
    /\ trip.back.v.num < 100 * trip.back.v.den

C22_WitnessThroughBase ==
    /\ trip.from = "USD" /\ trip.to = "GEL" /\ trip.x = 7
    /\ trip.there.ok /\ trip.back.ok
    /\ trip.back.v = Quot(7 * Bid("USD"), Ask("USD"))

----------------------------------------------------------------------------
(* Claims about the offer commands *)

(* C23: a one-sided offer whose conversion does not succeed is still      *)
(* replied to and saved, with amount 0 on the unresolved side: the        *)
(* command is never left before the reply, and the offer saved after a    *)
(* failed conversion has the amount given and WantAmount 0.               *)
C23_FailedConversionStillStores ==
    /\ \A c \in Callers : callers[c].last # "panic"
    /\ \A c \in Callers : \A r \in ComputeReplies :
          (r.err /\ callers[c].respCh = <<r>>) =>
              LET o == storedOffer(r.seen.from, r.seen.known, callers[c].want, r)
              IN  /\ o.WantAmount = Whole(0)
                  /\ o.HaveAmount = Whole(r.seen.known)
                  /\ o.HaveCurrency = r.seen.from

\* the currencies the words of a command name, in their order
RECURSIVE CurrenciesNamed(_)
CurrenciesNamed(parts) ==
    IF parts = <<>> THEN <<>>
    ELSE LET f == findOfferTokenPurpose(ToLowerToken(TrimSpaceToken(Head(parts))))
         IN  (IF f.c # "" THEN <<f.c>> ELSE <<>>) \o CurrenciesNamed(Tail(parts))

(* C24: parseOfferCommand assigns the sides by position: in a command it  *)
(* accepts, the first currency named is the have side of /sell and the    *)
(* want side of /buy, the second currency named is the other side; and    *)
(* "/sell USD 100 GEL" gives HaveAmount 100, HaveCurrency USD,            *)
(* WantCurrency GEL and no want amount.                                   *)
C24_SidesByPosition ==
    LET named == CurrenciesNamed(parsed.parts)
        first == IF parsed.command = "sell" THEN parsed.offer.HaveCurrency
                 ELSE parsed.offer.WantCurrency
        second == IF parsed.command = "sell" THEN parsed.offer.WantCurrency
                  ELSE parsed.offer.HaveCurrency
    IN  /\ (parsed.command # "" /\ parsed.err = "" /\ Len(named) \in 1..2) =>
               /\ first = named[1]
               /\ Len(named) = 2 => second = named[2]
        /\ (/\ parsed.command = "sell"
            /\ parsed.parts = << <<"U", "S", "D">>, <<"1", "0", "0">>, <<"g", "e", "l">> >>)
           => /\ parsed.err = ""
              /\ parsed.offer = [HaveAmount |-> 100, HaveCurrency |-> "USD",
                                 WantAmount |-> 0, WantCurrency |-> "GEL"]

----------------------------------------------------------------------------
(* Claims about the refreshes a conversion or a tick starts *)

\* the manager goroutine takes the refresh decision of the request in hand
Decides == actorPc = "updates" /\ actorPc' = "convert"

\* the currencies of that request that need refreshing
Stale == Updates(cur.knownCurrency, defaultCounterCurrency(cur.knownCurrency))

\* refreshReqs the manager goroutine has sent to itself and not yet taken
OwnRefreshes(q) == {i \in 1..Len(q) : q[i].type = "refresh" /\ q[i].who = "self"}

(* C25: when both currencies of a ConvertRequest need refreshing, the     *)
(* full refresh is done before the conversion is attempted: the handler   *)
(* does not go on to the conversion with the refresh it asked for still   *)
(* waiting in the mailbox.                                                *)
C25_BothStaleRefreshedFirst ==
    [][(Decides /\ Len(Stale) = 2) => OwnRefreshes(reqCh') = OwnRefreshes(reqCh)]_vars

\* single fetches in flight
RECURSIVE Sum(_, _)
Sum(f, S) == IF S = {} THEN 0 ELSE LET k == CHOOSE x \in S : TRUE IN f[k] + Sum(f, S \ {k})
InFlight(f) == Sum(f, DOMAIN f)

(* C26: a ConvertRequest between two non-base currencies of which exactly *)
(* one needs refreshing starts exactly one single fetch, for that         *)
(* currency, sends no refreshReq and starts no other fetch; and no        *)
(* request at all starts more than one single fetch.                      *)
C26_OneStaleOneSingleFetch ==
    [][Decides =>
         /\ InFlight(fetching') <= InFlight(fetching) + 1
         /\ (/\ Len(Stale) = 1
             /\ cur.knownCurrency # base
             /\ defaultCounterCurrency(cur.knownCurrency) # base)
            => /\ fetching' = [fetching EXCEPT ![Stale[1]] = @ + 1]
               /\ reqCh' = reqCh
               /\ async' = async
               /\ storeVars' = storeVars]_vars

C26_Witness ==
    /\ actorPc = "convert" /\ cur.knownCurrency = "USD" /\ base = "GEL"
    /\ ~NeedsUpdate("USD") /\ NeedsUpdate("RUR")
    /\ fetching["RUR"] = 1 /\ fetching["USD"] = 0
    /\ reqCh = <<>> /\ async.pc = "idle"

\* the manager goroutine sends the reply of the request in hand
Answers == actorPc = "convert" /\ actorPc' = "idle"

Store == [base |-> base, rates |-> rates, lastUpdated |-> lastUpdated]

Ticks == lastTick' # lastTick

(* C28: on every tick with the cache timestamp unset or more than 2h old, *)
(* or with a quote of zero timestamp, the goroutine of the full fetch is  *)
(* started; and when that goroutine ends successfully the map is the one  *)
(* built from its response.                                               *)
C28_StaleTickFetches ==
    [][/\ (Ticks /\ (lastUpdated = 0 \/ now - lastUpdated > UpdateThreshold \/ AnyOld))
          => (async.pc = "idle" /\ async'.pc = "fetch")
       /\ (async.pc = "rates" /\ async'.pc = "idle")
          => DOMAIN rates' = {ToUpper(async.out.List[i].Currency) :
                                 i \in 1..Len(async.out.List)}]_vars

(* C29: on a tick with the cache timestamp set and not more than 2h old   *)
(* and every quote of a non-empty map stamped less than 2h ago, no fetch  *)
(* is started, rates and base stay as they are, and the cache timestamp   *)
(* becomes the oldest timestamp of the quotes.                            *)
C29_FreshTickOnlyAligns ==
    [][(/\ Ticks
        /\ lastUpdated # 0 /\ now - lastUpdated <= UpdateThreshold
        /\ DOMAIN rates # {}
        /\ \A k \in DOMAIN rates :
              rates[k].LastUpdated # 0 /\ now - rates[k].LastUpdated < UpdateThreshold)
       => /\ async' = async
          /\ rates' = rates /\ base' = base
          /\ \E k \in DOMAIN rates :
                /\ lastUpdated' = rates[k].LastUpdated
                /\ \A j \in DOMAIN rates : rates[k].LastUpdated <= rates[j].LastUpdated
          /\ fetching' = fetching /\ reqCh' = reqCh]_vars

\* after such a tick: the cache timestamp moved back to the older quote
C29_Witness ==
    /\ lastTick = now /\ lastTick > 1
    /\ async.pc = "idle" /\ DOMAIN rates = {"USD", "RUR"}
    /\ rates["USD"].LastUpdated # rates["RUR"].LastUpdated
    /\ now - lastUpdated < UpdateThreshold
    /\ lastUpdated = Min({rates["USD"].LastUpdated, rates["RUR"].LastUpdated})
    /\ replacedAt # lastUpdated

\* the reply rests on the cached cross-rate
ByCrossRate(r) == ~r.err /\ ~r.seen.dOk

\* the quote the handling had for one side was never fetched: absent from
\* the map, or stored with the zero timestamp
NeverFetched(r, side) ==
    IF side = "from"
    THEN r.seen.from # r.seen.base /\ (~r.seen.pFrom \/ r.seen.qFrom.LastUpdated = 0)
    ELSE r.seen.to # r.seen.base /\ (~r.seen.pTo \/ r.seen.qTo.LastUpdated = 0)

(* C30: no reply computed by the cached cross-rate rests on a quote with  *)
(* zero timestamp: when the direct convert fails and the quote of either  *)
(* side was never fetched, the conversion fails.                          *)
C30_NoZeroStampedQuoteUsed ==
    [](\A r \in ComputeReplies :
          /\ ByCrossRate(r) => ~NeverFetched(r, "from") /\ ~NeverFetched(r, "to")
          /\ (~r.seen.dOk /\ (NeverFetched(r, "from") \/ NeverFetched(r, "to"))) => r.err)

C30_Witness ==
    \E r \in ComputeReplies :
        /\ r.seen.from = "USD" /\ r.seen.to = "RUR" /\ r.seen.base = "GEL"
        /\ r.seen.pFrom /\ r.seen.qFrom.LastUpdated # 0 /\ r.seen.qFrom.Buy # 0
        /\ NeverFetched(r, "to")
        /\ ~r.seen.dOk /\ r.err

C30_WitnessUsed ==
    \E r \in ComputeReplies :
        /\ ByCrossRate(r) /\ r.seen.from = "USD" /\ r.seen.to = "RUR"
        /\ r.seen.qFrom.LastUpdated # 0 /\ r.seen.qTo.LastUpdated # 0

----------------------------------------------------------------------------
(* Claims about the store *)

\* the manager goroutine takes an applySingle from the mailbox
Applies ==
    /\ ActorIdle /\ reqCh # <<>> /\ NextMsg.type = "apply"
    /\ lastSeq' = NextMsg.seq /\ lastSeq' # lastSeq

(* C32: handling applySingle{code, rate} changes the map entry of code    *)
(* and the cache timestamp and nothing else of the store: every other     *)
(* entry and the base stay, and no reply is put on any reply channel.     *)
C32_ApplySingleTouchesOneEntry ==
    [][Applies =>
         /\ DOMAIN rates' = DOMAIN rates \cup {NextMsg.code}
         /\ \A k \in DOMAIN rates \ {NextMsg.code} : rates'[k] = rates[k]
         /\ rates'[NextMsg.code].Buy = NextMsg.rate.Buy
         /\ rates'[NextMsg.code].Sell = NextMsg.rate.Sell
         /\ lastUpdated' = now
         /\ base' = base
         /\ \A c \in Callers : callers'[c].respCh = callers[c].respCh]_vars

\* after an applySingle for RUR on a map that held USD from a refresh
C32_Witness ==
    /\ applied = {"RUR"} /\ replaced = {"USD"}
    /\ DOMAIN rates = {"USD", "RUR"}
    /\ rates["USD"].LastUpdated = replacedAt
    /\ lastUpdated >= rates["RUR"].LastUpdated

\* the next step of the manager goroutine is the return of a provider call
AwaitsProvider == actorPc \in {"init", "refresh", "convert"}

(* C33: the manager goroutine waits for a provider call only inside the   *)
(* full refresh (the initial one or that of a refreshReq), never while it *)
(* handles a ConvertRequest or a tick.                                    *)
C33_ActorWaitsOnlyInRefresh ==
    AwaitsProvider => (actorPc = "init" \/ cur.type = "refresh")

(* C34: every quote in the map has a non-zero timestamp, so the tick      *)
(* never finds a quote with the zero timestamp.                           *)
C34_EveryQuoteIsStamped ==
    [](/\ \A k \in DOMAIN rates : rates[k].LastUpdated # 0
       /\ ~AnyOld)

\* a map written by the periodic goroutine and then merged into by an
\* applySingle
C34_Witness ==
    /\ lastTick > 1 /\ replacedAt >= lastTick
    /\ applied # {} /\ replaced # {} /\ applied \cap replaced = {}
    /\ \A k \in DOMAIN rates : rates[k].LastUpdated # 0

(* C36: while a key stays in the map the timestamp of its quote never     *)
(* decreases.                                                             *)
C36_TimestampsNeverDecrease ==
    [][\A k \in DOMAIN rates \cap DOMAIN rates' :
          rates'[k].LastUpdated >= rates[k].LastUpdated]_vars

\* a currency of the request in hand that needs no refresh: the base, or a
\* quote with non-zero rates stamped within the freshness threshold
Usable(c) ==
    \/ c = base
    \/ /\ c \in DOMAIN rates
       /\ rates[c].Buy # 0 /\ rates[c].Sell # 0
       /\ rates[c].LastUpdated # 0 /\ now - rates[c].LastUpdated <= FreshThreshold

(* C37: a ConvertRequest whose two currencies both are the base or have a *)
(* usable quote fresher than 1h starts no refresh: no single fetch, no    *)
(* full refresh, and no refreshReq on the mailbox.                        *)
C37_FreshRequestRefreshesNothing ==
    [][(/\ Decides
        /\ Usable(cur.knownCurrency)
        /\ Usable(defaultCounterCurrency(cur.knownCurrency)))
       => /\ reqCh' = reqCh
          /\ fetching' = fetching
          /\ async' = async
          /\ storeVars' = storeVars]_vars

----------------------------------------------------------------------------
(* Claims about the refreshes, checked under SpecProvider *)

(* C31: the map never has an entry whose key is the base currency.        *)
C31_BaseNeverStored == base \notin DOMAIN rates

(* C35: once the base is set to a non-empty code it never changes.        *)
C35_BaseNeverChanges == [][base # "" => base' = base]_vars

\* the goroutine of the periodic refresh makes its last write and ends
AsyncEnds == async.pc = "rates" /\ async'.pc = "idle"

(* C38: when the periodic goroutine has written its last, the store is    *)
(* the one a synchronous refresh makes of the same provider answer at the *)
(* same time: the same keys with the same bid and ask, every entry and    *)
(* the cache stamped with that time, the answer's base.                   *)
C38_PeriodicEqualsSynchronous ==
    [][AsyncEnds =>
         /\ rates' = SyncMap(async.out, async.now)
         /\ lastUpdated' = async.now
         /\ base' = ToUpper(async.out.Base)]_vars

----------------------------------------------------------------------------
(* Claims about the update loop, checked under SpecUpdates *)

\* the loop is between two updates, or the bot is down
Between == bot.pc \in {"polling", "down"}

(* C39 as stated: after the loop has processed update u, whatever its     *)
(* handler did, last_update_id is u, and no update is handled twice       *)
(* across restarts.                                                       *)
C39_ProcessedMeansPersisted ==
    /\ (Between /\ bot.done # 0) => bot.last_update_id = bot.done
    /\ \A i \in UpdateIDs : bot.handled[i] <= 1

====
